---- MODULE Spec2Model ----
(***************************************************************************)
(* Segment tree of abigalekim/segtrees: a complete binary tree stored in   *)
(* the flat array A of 2*N slots (slot 0 unused, slot 1 the root, leaves   *)
(* at N..2N-1), with point assignment (Assign) and range aggregation       *)
(* (RangeSum, through the recursion f).  The repository holds the same     *)
(* algorithm four times; the model carries all four and records which one  *)
(* a behaviour runs:                                                       *)
(*   "segtree.c"            src/segtree.c       int indices                *)
(*   "c/segtree.c"          src/c/segtree.c     size_t indices             *)
(*   "segtree.cpp"          src/segtree.cpp     int indices                *)
(*   "generic_segtree.cpp"  src/cpp/generic_segtree.cpp, operator supplied *)
(***************************************************************************)
EXTENDS Integers, Sequences, FiniteSets, TLC

VARIABLES variant,    \* which source file runs
          glue_func,  \* the combining operator ("plus" in the fixed variants)
          n,          \* logical size
          N,          \* capacity
          identity,   \* the tree's identity field
          A,          \* storage, a function 0..2N-1 -> Int
          phase,      \* "ready"; "crashed" once the process has died, "corrupt" once
                      \* it runs on after undefined behaviour
          last,       \* record of the last Init or Assign call: arguments, outcome, slots written
          query,      \* record of the RangeSum call whose result the caller holds, or NoQuery
          hist,       \* history: per logical position <<>> or <<last value assigned>>
          valid,      \* history: every Assign so far had its index in [0, n)
          nassign     \* history: number of Assign calls made

vars == <<variant, glue_func, n, N, identity, A, phase, last, query, hist, valid, nassign>>

-----------------------------------------------------------------------------
(* Bounds of the model *)

\* Largest logical size a tree is built with, the demonstration's apart.
MaxSize == 3
\* The size main builds its tree with: SegTreeInit(&s, 7), Segtree s(7).
DemoSize == 7
\* Largest number of Assign calls in a behaviour.
MaxAssigns == 2
\* Depth of recursion the stack holds; a deeper recursion is a stack overflow.
StackLimit == 6

\* Values the caller assigns (the demonstration assigns 7 and 1).
Vals == {1, 7}
\* Values an object that was never initialised may hold.
Garbage == {0, 5}

Variants == {"segtree.c", "c/segtree.c", "segtree.cpp", "generic_segtree.cpp"}
\* Operators handed to the generic constructor: std::plus, std::multiplies and a
\* non-commutative one, decimal concatenation (0 the empty string).
Operators == {"plus", "multiplies", "cat"}
\* The variants whose indices are int (the others take size_t, never negative).
SignedIndex == {"segtree.c", "segtree.cpp"}

-----------------------------------------------------------------------------
(* Helpers of the source *)

RECURSIVE SuperCeilingLoop(_, _)
SuperCeilingLoop(p, size) == IF p < size THEN SuperCeilingLoop(2 * p, size) ELSE p

\* for (p=1; p < n; p = p << 1); return p;
SuperCeiling(size) == SuperCeilingLoop(1, size)

max(a, b) == IF a > b THEN a ELSE b
min(a, b) == IF a < b THEN a ELSE b

\* Faulty Parent, that of a heap rooted at 0; C1 is tested against it.
ParentZeroBased(i) == (i - 1) \div 2

Parent(i) == i \div 2
LeftChild(i) == 2 * i
RightChild(i) == 2 * i + 1

\* Number of decimal digits of a, 0 for 0 (the empty string).
RECURSIVE Digits(_)
Digits(a) == IF a <= 0 THEN 0 ELSE 1 + Digits(a \div 10)

RECURSIVE Pow10(_)
Pow10(k) == IF k = 0 THEN 1 ELSE 10 * Pow10(k - 1)

\* glue / glue_func: a+b in the fixed variants, the supplied operator in the
\* generic one.
GlueOp(op, a, b) ==
    CASE op = "plus" -> a + b
      [] op = "multiplies" -> a * b
      [] op = "cat" -> a * Pow10(Digits(b)) + b

glue(a, b) == GlueOp(glue_func, a, b)

-----------------------------------------------------------------------------
(* Construction *)

\* The identity field once construction has returned.  src/segtree.c never
\* stores to s->identity and main's SegTree s is an uninitialised automatic
\* object, so the field holds an indeterminate value there; src/c/segtree.c
\* stores 0; the C++ classes carry the member initialiser identity = 0.
ConstructedIdentity(v) == IF v = "segtree.c" THEN Garbage ELSE {0}

\* What construction fills the 2*N slots with: the literal 0 in the C files,
\* the identity member in the C++ classes (A.resize(2 * N, identity)).
ConstructedFill(v, id) == IF v \in {"segtree.c", "c/segtree.c"} THEN 0 ELSE id

\* The record kept of an Init or Assign call: its arguments, how it ended and
\* the slots it wrote, in order.
Call(op, a, b, outcome, writes) ==
    [op |-> op, a |-> a, b |-> b, outcome |-> outcome, writes |-> writes]

\* The record kept of a RangeSum call: its arguments, how it ended, the value
\* returned, the calls of f made and the deepest level of recursion.
Query(i, j, outcome, val, calls, depth) ==
    [op |-> "RangeSum", i |-> i, j |-> j, outcome |-> outcome, val |-> val,
     calls |-> calls, depth |-> depth]

\* No RangeSum result is held.
NoQuery == [op |-> "none", i |-> 0, j |-> 0, outcome |-> "none", val |-> 0,
            calls |-> {}, depth |-> 0]

\* SegTreeInit / Segtree::Segtree
Init ==
    /\ variant \in Variants
    /\ glue_func \in (IF variant = "generic_segtree.cpp" THEN Operators ELSE {"plus"})
    /\ n \in 0..MaxSize \cup {DemoSize}
    /\ N = SuperCeiling(n)
    /\ identity \in ConstructedIdentity(variant)
    /\ A = [k \in 0..(2 * N - 1) |-> ConstructedFill(variant, identity)]
    /\ phase = "ready"
    /\ last = Call("Init", n, 0, "returned", <<>>)
    /\ query = NoQuery
    /\ hist = [k \in 0..(n - 1) |-> <<>>]
    /\ valid = TRUE
    /\ nassign = 0

-----------------------------------------------------------------------------
(* Assign *)

\* Faulty loop, i > 1 for i > 0: it stops below the root; C9 is tested
\* against it.
RECURSIVE AssignLoopBelowRoot(_, _, _)
AssignLoopBelowRoot(S, i, w) ==
    IF i > 1
    THEN AssignLoopBelowRoot([S EXCEPT ![i] = S[2 * i] + S[2 * i + 1]],
                             i \div 2, Append(w, i))
    ELSE [A |-> S, writes |-> w]

\* for (i = Parent(i); i>0; i = Parent(i)) A[i] = glue(A[LeftChild(i)], A[RightChild(i)]);
\* S is the storage so far, w the slots written so far.
RECURSIVE AssignLoop(_, _, _)
AssignLoop(S, i, w) ==
    IF i > 0
    THEN AssignLoop([S EXCEPT ![i] = glue(S[LeftChild(i)], S[RightChild(i)])],
                    Parent(i), Append(w, i))
    ELSE [A |-> S, writes |-> w]

\* Index arguments the caller may pass: the logical positions, the padding
\* positions, the first position past the capacity and, where the parameter is
\* an int, a negative one.
IndexArgs == (IF variant \in SignedIndex THEN {-1} ELSE {}) \cup 0..N

\* The history variables after Assign(i, x).
Recorded(i, x) ==
    /\ hist' = IF i \in 0..(n - 1) THEN [hist EXCEPT ![i] = <<x>>] ELSE hist
    /\ valid' = (valid /\ i \in 0..(n - 1))
    /\ nassign' = nassign + 1

\* Assign(i, x).  No variant compares i with n or N.  With i + N inside the
\* array the store and the loop run as written.  With i + N >= 2*N the store
\* lands outside the array (undefined behaviour): the process dies, or it goes
\* on with memory in a state the model no longer follows ("corrupt").
\* The program is single-threaded: a call starts only once the caller holds no
\* pending RangeSum result (query = NoQuery).
Assign(i, x) ==
    /\ phase = "ready"
    /\ query = NoQuery
    /\ nassign < MaxAssigns
    /\ Recorded(i, x)
    /\ UNCHANGED <<variant, glue_func, n, N, identity, query>>
    /\ IF i + N \in DOMAIN A
       THEN \E r \in {AssignLoop([A EXCEPT ![i + N] = x], Parent(i + N), <<i + N>>)} :
               /\ A' = r.A
               /\ phase' = "ready"
               /\ last' = Call("Assign", i, x, "returned", r.writes)
       ELSE \/ /\ A' = A
               /\ phase' = "crashed"
               /\ last' = Call("Assign", i, x, "crashed", <<i + N>>)
            \/ /\ A' = A
               /\ phase' = "corrupt"
               /\ last' = Call("Assign", i, x, "returned", <<i + N>>)

-----------------------------------------------------------------------------
(* RangeSum *)

\* Faulty midpoint, rounded up; C8 is tested against it.
MidRoundedUp(l, r) == (l + r + 1) \div 2

\* m = (l+r)/2
Mid(l, r) == (l + r) \div 2

\* The result of a call of f: the value returned, the calls made (each
\* <<v, l, r, i, j>>), the deepest level reached, whether the recursion ran
\* past the stack.
Result(val, calls, depth, overflow) ==
    [val |-> val, calls |-> calls, depth |-> depth, overflow |-> overflow]

\* f(v, l, r, i, j) at recursion depth d.  A[v] with v outside the array is
\* undefined behaviour; within the arguments modelled every such read lies in
\* a recursion that runs past the stack, so the value read (written 0 here)
\* never reaches a caller.
RECURSIVE f(_, _, _, _, _, _)
f(v, l, r, i, j, d) ==
    IF d > StackLimit
    THEN Result(0, {}, d, TRUE)
    ELSE IF l = i /\ r = j
    THEN Result(IF v \in DOMAIN A THEN A[v] ELSE 0, {<<v, l, r, i, j>>}, d, FALSE)
    ELSE LET m == Mid(l, r)
             none == Result(identity, {}, d, FALSE)
             t1 == IF i <= m THEN f(LeftChild(v), l, m, i, min(m, j), d + 1) ELSE none
             t2 == IF j > m THEN f(RightChild(v), m + 1, r, max(i, m + 1), j, d + 1) ELSE none
         IN Result(glue(t1.val, t2.val),
                   {<<v, l, r, i, j>>} \cup t1.calls \cup t2.calls,
                   max(t1.depth, t2.depth),
                   t1.overflow \/ t2.overflow)

\* RangeSum(i, j): return f(1, 0, N-1, i, j).  No variant checks i or j.  A
\* recursion that runs past the stack kills the process.
RangeSum(i, j) ==
    /\ phase = "ready"
    /\ query = NoQuery
    /\ UNCHANGED <<variant, glue_func, n, N, identity, A, last, hist, valid, nassign>>
    /\ \E r \in {f(1, 0, N - 1, i, j, 0)} :
          IF r.overflow
          THEN /\ phase' = "crashed"
               /\ query' = Query(i, j, "crashed", 0, r.calls, r.depth)
          ELSE /\ phase' = "ready"
               /\ query' = Query(i, j, "returned", r.val, r.calls, r.depth)

\* The caller has used the value RangeSum returned (main prints it) and goes on.
Resume ==
    /\ phase = "ready"
    /\ query # NoQuery
    /\ query' = NoQuery
    /\ UNCHANGED <<variant, glue_func, n, N, identity, A, phase, last, hist, valid, nassign>>

-----------------------------------------------------------------------------

Next ==
    \/ \E i \in IndexArgs, x \in Vals : Assign(i, x)
    \/ \E i \in IndexArgs, j \in IndexArgs : RangeSum(i, j)
    \/ Resume

Spec == Init /\ [][Next]_vars

-----------------------------------------------------------------------------
(* Vocabulary of the properties *)

RECURSIVE Log2(_)
Log2(k) == IF k <= 1 THEN 0 ELSE 1 + Log2(k \div 2)

RECURSIVE Pow2(_)
Pow2(e) == IF e = 0 THEN 1 ELSE 2 * Pow2(e - 1)

IsPowerOfTwo(k) == k >= 1 /\ Pow2(Log2(k)) = k

Range(w) == {w[k] : k \in DOMAIN w}

\* The identity element of an operator: op(e, x) = op(x, e) = x.
IdentityOf(op) == IF op = "multiplies" THEN 1 ELSE 0

\* The current value of logical position k: the value last assigned to it, or
\* the operator's identity element if it was never assigned.
Current(k) == IF hist[k] = <<>> THEN IdentityOf(glue_func) ELSE hist[k][1]

\* The value of position k of the capacity: a padding position holds the
\* operator's identity element.
Padded(k) == IF k < n THEN Current(k) ELSE IdentityOf(glue_func)

\* The left-to-right fold of the operator over positions i..j.
RECURSIVE Fold(_, _)
Fold(i, j) == IF i = j THEN Padded(i) ELSE glue(Fold(i, j - 1), Padded(j))

\* The block of node v: the logical range its subtree covers.
BlockSize(v) == N \div Pow2(Log2(v))
BlockLow(v) == (v - Pow2(Log2(v))) * BlockSize(v)
BlockHigh(v) == BlockLow(v) + BlockSize(v) - 1

\* The leaf of a logical position, then its ancestors up to the root.
RECURSIVE PathToRoot(_)
PathToRoot(i) == IF i <= 1 THEN <<i>> ELSE <<i>> \o PathToRoot(i \div 2)

ValidAssign(c) == c.op = "Assign" /\ c.a \in 0..(n - 1)

-----------------------------------------------------------------------------
(* C1 *)

-----------------------------------------------------------------------------
(* C2 *)

\* C2: after any sequence of valid Assign calls, for all 0 <= i <= j < n,
\* RangeSum(i, j) returns the left-to-right fold of the operator over the
\* current values of positions i..j (the value last assigned, or the
\* operator's identity element), for plus, multiplies and the
\* non-commutative cat alike.
C2_RangeQueryIsFold ==
    (valid /\ query.op = "RangeSum" /\ 0 <= query.i /\ query.i <= query.j /\ query.j < n)
        => (query.outcome = "returned" /\ query.val = Fold(query.i, query.j))

-----------------------------------------------------------------------------
(* C3 *)

\* C3: Assign with an index outside [0, n) signals OutOfRange and writes no
\* slot, so that no call of Assign ever writes a padding leaf N+n..2N-1.
C3_AssignOutOfRange ==
    last.op = "Assign" =>
        /\ (last.a \notin 0..(n - 1) => (last.outcome = "OutOfRange" /\ last.writes = <<>>))
        /\ \A k \in Range(last.writes) : k \notin (N + n)..(2 * N - 1)

-----------------------------------------------------------------------------
(* C4 *)

\* C4: RangeSum(i, j) signals OutOfRange whenever i > j or one of i, j lies
\* outside [0, n-1], padding positions included.
C4_QueryOutOfRange ==
    (query.op = "RangeSum"
       /\ (query.i > query.j \/ query.i \notin 0..(n - 1) \/ query.j \notin 0..(n - 1)))
        => query.outcome = "OutOfRange"

-----------------------------------------------------------------------------
(* C5 *)

\* The state main queries: a tree of size 7 under addition after Assign(3, 7)
\* and Assign(4, 1).
Demonstration ==
    /\ n = DemoSize /\ glue_func = "plus" /\ valid /\ nassign = 2
    /\ hist = [k \in 0..(n - 1) |-> IF k = 3 THEN <<7>> ELSE IF k = 4 THEN <<1>> ELSE <<>>]

\* RangeSum(i, j) returned val.
Returned(i, j, val) ==
    (query.op = "RangeSum" /\ query.i = i /\ query.j = j)
        => (query.outcome = "returned" /\ query.val = val)

\* C5: in the demonstration RangeSum(2,7) = 8, RangeSum(0,3) = 7,
\* RangeSum(4,5) = 1 and RangeSum(5,5) = 0; and after valid assignments any
\* query 0 <= i <= j <= N-1 that reaches padding returns the fold over i..j
\* with each padding position contributing the identity element.
C5_Demonstration ==
    /\ Demonstration =>
          (Returned(2, 7, 8) /\ Returned(0, 3, 7) /\ Returned(4, 5, 1) /\ Returned(5, 5, 0))
    /\ (valid /\ query.op = "RangeSum" /\ 0 <= query.i /\ query.i <= query.j
           /\ n <= query.j /\ query.j <= N - 1)
          => (query.outcome = "returned" /\ query.val = Fold(query.i, query.j))

-----------------------------------------------------------------------------
(* C6 *)

\* C6: for every pair of arguments RangeSum returns: the recursion reaches
\* its base cases and is never deeper than log2(N).
C6_QueryTerminates ==
    query.op = "RangeSum" => (query.outcome # "crashed" /\ query.depth <= Log2(N))

-----------------------------------------------------------------------------
(* C7 *)

\* C7: construction yields N the smallest power of two >= n (1 for n = 0, n
\* for n a power of two) and a storage of exactly 2*N slots, every one equal
\* to the tree's identity.
C7_Construction ==
    last.op = "Init" =>
        /\ IsPowerOfTwo(N) /\ N >= n
        /\ \A p \in 1..(N - 1) : IsPowerOfTwo(p) => p < n
        /\ (n = 0 => N = 1)
        /\ (IsPowerOfTwo(n) => N = n)
        /\ DOMAIN A = 0..(2 * N - 1)
        /\ \A k \in DOMAIN A : A[k] = identity

-----------------------------------------------------------------------------
(* C8 *)

\* C8: for a query 0 <= i <= j <= N-1 every call f(v, l, r, i', j') of the
\* recursion has 1 <= v < 2*N, [l, r] the block of node v with r-l+1 a power
\* of two, and l <= i' <= j' <= r.
C8_CallsWithinBlocks ==
    (query.op = "RangeSum" /\ 0 <= query.i /\ query.i <= query.j /\ query.j <= N - 1)
        => /\ query.outcome = "returned"
           /\ <<1, 0, N - 1, query.i, query.j>> \in query.calls
           /\ \A c \in query.calls :
                 /\ 1 <= c[1] /\ c[1] < 2 * N
                 /\ c[2] = BlockLow(c[1]) /\ c[3] = BlockHigh(c[1])
                 /\ IsPowerOfTwo(c[3] - c[2] + 1)
                 /\ c[2] <= c[4] /\ c[4] <= c[5] /\ c[5] <= c[3]

\* A query over 1..6 of a capacity of 8 has returned: it splits at every level
\* and reaches leaves.
C8_Witness ==
    /\ query.op = "RangeSum" /\ query.outcome = "returned"
    /\ N = 8 /\ query.i = 1 /\ query.j = 6
    /\ Cardinality(query.calls) >= 7
    /\ \E c \in query.calls : c[1] >= N

-----------------------------------------------------------------------------
(* C9 *)

\* C9: Assign(index, value) with index in [0, n) writes A[index + N], then
\* exactly the log2(N) proper ancestors of that leaf up to the root, never
\* slot 0; every other slot, and n, N and identity, stay as they were.
C9_AssignFrame ==
    [][(nassign' = nassign + 1 /\ ValidAssign(last'))
         => /\ last'.outcome = "returned"
            /\ last'.writes = PathToRoot(last'.a + N)
            /\ Len(last'.writes) = Log2(N) + 1
            /\ 0 \notin Range(last'.writes)
            /\ DOMAIN A' = DOMAIN A
            /\ A'[last'.a + N] = last'.b
            /\ \A k \in DOMAIN A : k \notin Range(last'.writes) => A'[k] = A[k]
            /\ <<n, N, identity>>' = <<n, N, identity>>]_vars

\* A valid Assign to a tree of capacity 8 has written a leaf and its three
\* ancestors.
C9_Witness ==
    /\ ValidAssign(last) /\ last.outcome = "returned"
    /\ N = 8 /\ Len(last.writes) = 4 /\ last.writes[4] = 1

-----------------------------------------------------------------------------
(* C10 *)

\* C10: in every variant the identity field of a constructed tree is an
\* identity element of the tree's operator: glue(identity, x) = x and
\* glue(x, identity) = x.
C10_IdentityElement ==
    \A x \in Vals \cup {0} : glue(identity, x) = x /\ glue(x, identity) = x

====
